---------------------------- MODULE Spec2Model ----------------------------
(***************************************************************************)
(* Model of Driver/driver.py: the Transport (SerialTransport and           *)
(* SimulationTransport), the ButtonDriver protocol handler, the LED-off    *)
(* timer threads and the run loop of main().                               *)
(*                                                                         *)
(* Text is modelled as sequences of one-character strings, so that split,  *)
(* strip, upper and the f-string of send_led are computed, not assumed.    *)
(* Every thread (the foreground thread and each timer thread) has a call   *)
(* stack of frames [pc, a, n, c]: the position in the code, a text         *)
(* argument, a numeric local and the handle_line call it works for.        *)
(***************************************************************************)
EXTENDS Integers, Sequences, FiniteSets, TLC

(* ------------------------------ bounds ------------------------------- *)

\* number of lines the run loop reads before the input source goes silent
MaxLines == 2
\* number of channel-level failures (open, write, read) the device produces
MaxFaults == 1
\* number of successful opens of the serial device
MaxOpens == 3
\* number of extra close() calls made in a row after the one of main()
MaxClose == 1
\* number of LED-off timer threads the process can start
MaxTimers == 3

(* ------------------------------- text -------------------------------- *)

NL == "\n"
CR == "\r"
SP == " "
BAR == "|"
\* a byte that is not valid UTF-8 (dropped by decode(errors="ignore"))
BAD == "?"

Whitespace == {NL, CR, SP}

LowerLetters ==
    <<"a", "b", "c", "d", "e", "f", "g", "h", "i", "j", "k", "l", "m",
      "n", "o", "p", "q", "r", "s", "t", "u", "v", "w", "x", "y", "z">>
UpperLetters ==
    <<"A", "B", "C", "D", "E", "F", "G", "H", "I", "J", "K", "L", "M",
      "N", "O", "P", "Q", "R", "S", "T", "U", "V", "W", "X", "Y", "Z">>

\* str.upper() on one character
Upper(ch) ==
    IF \E i \in 1..Len(LowerLetters) : LowerLetters[i] = ch
    THEN UpperLetters[CHOOSE i \in 1..Len(LowerLetters) : LowerLetters[i] = ch]
    ELSE ch

UpperStr(s) == [i \in 1..Len(s) |-> Upper(s[i])]

\* str.strip(): leading and trailing whitespace removed
RECURSIVE LStrip(_)
LStrip(s) == IF s # <<>> /\ s[1] \in Whitespace THEN LStrip(Tail(s)) ELSE s

RECURSIVE RStrip(_)
RStrip(s) ==
    IF s # <<>> /\ s[Len(s)] \in Whitespace
    THEN RStrip(SubSeq(s, 1, Len(s) - 1))
    ELSE s

Strip(s) == RStrip(LStrip(s))

\* bytes.decode("utf-8", errors="ignore"): invalid bytes are dropped
Decode(data) == SelectSeq(data, LAMBDA ch : ch # BAD)

\* str.split('|'): always at least one field
RECURSIVE Split(_)
Split(s) ==
    IF \A i \in 1..Len(s) : s[i] # BAR
    THEN <<s>>
    ELSE LET k == CHOOSE i \in 1..Len(s) :
                     s[i] = BAR /\ \A j \in 1..(i - 1) : s[j] # BAR
         IN  <<SubSeq(s, 1, k - 1)>> \o Split(SubSeq(s, k + 1, Len(s)))

DigitChars == <<"0", "1", "2", "3", "4", "5", "6", "7", "8", "9">>

\* str(int) for a non-negative integer
RECURSIVE IntStr(_)
IntStr(k) ==
    IF k < 10 THEN <<DigitChars[k + 1]>>
    ELSE IntStr(k \div 10) \o <<DigitChars[(k % 10) + 1]>>

(* --------------------------- the registry ---------------------------- *)

\* self.programs: button id -> command tokens
programs ==
    (<<"1">> :> <<"notepad.exe">>) @@ (<<"2">> :> <<"bash", "-c", "echo hi">>)

\* BLINK periods of flash_led
SuccessPeriod == 180
FailurePeriod == 80

\* default flash durations of ButtonDriver.__init__ (milliseconds)
success_flash_ms == 1200
error_flash_ms == 2000

BLINK == <<"B", "L", "I", "N", "K">>
OFF == <<"O", "F", "F">>
HELLO == <<"H", "E", "L", "L", "O", "|", "P", "C">>

\* send_led appending an argument field to every command
LedCommandAlwaysArgument(led_id, ledmode, argument) ==
    <<"L", "E", "D", "|">> \o led_id \o <<BAR>> \o ledmode \o <<BAR>>
        \o IntStr(IF argument >= 0 THEN argument ELSE 0)

\* the command text send_led builds; argument < 0 stands for None
LedCommand(led_id, ledmode, argument) ==
    LET command == <<"L", "E", "D", "|">> \o led_id \o <<BAR>> \o ledmode
    IN  IF argument >= 0 THEN command \o <<BAR>> \o IntStr(argument) ELSE command

\* flash_led with the two periods exchanged
FlashPeriodSwapped(success) == IF success THEN FailurePeriod ELSE SuccessPeriod

\* flash_led sending the same period for both kinds of flash
FlashPeriodSame(success) == SuccessPeriod

\* flash_led, line 166: the period of the BLINK command
FlashPeriod(success) == IF success THEN SuccessPeriod ELSE FailurePeriod

\* flash_led using the success duration for every flash
FlashDurationSame(success) == success_flash_ms

\* flash_led, line 167: the delay of the timer, in milliseconds
FlashDuration(success) == IF success THEN success_flash_ms ELSE error_flash_ms

\* SerialTransport.send_line: payload = line.strip() + "\n"
Payload(line) == Strip(line) \o <<NL>>

(* ---------------------------- handle_line ---------------------------- *)

\* handle_line launching on every BTN event, whatever its action
DispatchAnyAction(line) ==
    IF line = <<>> THEN "none"
    ELSE LET parts == Split(line)
             topic == UpperStr(parts[1])
         IN  IF topic = <<"B", "T", "N">> /\ Len(parts) >= 3 THEN "launch"
             ELSE IF topic = <<"R", "E", "A", "D", "Y">> THEN "ready"
             ELSE "ignore"

\* what handle_line does with a line: "none" (return at once), "launch"
\* (launch_program is called), "event" (another action), "ready" or
\* "ignore" (only logged)
Dispatch(line) ==
    IF line = <<>> THEN "none"
    ELSE LET parts == Split(line)
             topic == UpperStr(parts[1])
         IN  IF topic = <<"B", "T", "N">> /\ Len(parts) >= 3
             THEN IF UpperStr(parts[3]) = <<"D", "O", "W", "N">>
                  THEN "launch" ELSE "event"
             ELSE IF topic = <<"R", "E", "A", "D", "Y">> THEN "ready"
             ELSE "ignore"

ButtonId(line) == Split(line)[2]

(* ----------------------------- the input ----------------------------- *)

\* a mapped button, as the device frames it
LineDown1 == <<"B", "T", "N", BAR, "1", BAR, "D", "O", "W", "N", CR, NL>>
\* a mapped button, lower case
LineDown2 == <<"b", "t", "n", BAR, "2", BAR, "d", "o", "w", "n">>
\* an unmapped button
LineDown9 == <<SP, "B", "T", "N", BAR, "9", BAR, "D", "O", "W", "N">>
\* an action other than DOWN
LineUp == <<"B", "T", "N", BAR, "1", BAR, "U", "P">>
\* BTN with fewer than 3 fields
LineShort == <<"B", "T", "N", BAR, "1">>
\* the device's READY report
LineReady == <<"R", "E", "A", "D", "Y", BAR, "v", "1", NL>>
\* another topic, with an undecodable byte
LineOther == <<BAD, "X", BAR, "1", BAR, "D", "O", "W", "N">>
\* an empty read (timeout) or an empty typed line
LineEmpty == <<>>

\* what the operator types at the simulation prompt (input)
Inputs ==
    {LineDown1, LineDown2, LineDown9, LineUp, LineShort, LineReady, LineOther,
     LineEmpty}

\* what the device sends (readline); LineEmpty is a read timeout
SerialInputs == {LineDown1, LineDown9, LineUp, LineOther, LineEmpty}

(* ----------------------------- the state ----------------------------- *)

\* the foreground thread; the timer threads are 1..MaxTimers
MAIN == 0
Timers == 1..MaxTimers
Threads == {MAIN} \cup Timers

\* the value of self._lock when no thread holds it
Free == -1
\* self.serial = None
None == 0

VARIABLES
    mode,         \* "sim" (args.simulate) or "serial"
    stack,        \* stack[t]: the call stack of thread t, innermost frame last
    st,           \* st[t]: "new", "run", "done", "died" (exception), "killed"
    serial,       \* SerialTransport.serial: None or the handle it holds
    isOpen,       \* the handles whose is_open is true
    opens,        \* number of successful opens (the handles are 1..opens)
    lock,         \* TransportBase._lock: Free or the thread holding it
    wire,         \* what was written, in order: chunks [h, t, data, c]
    spawns,       \* the subprocess.Popen calls, in order: [c, cmd, out, at],
                  \* at: how much had been written when Popen was called
    calls,        \* the handle_line calls, in order: [line, st]
    timers,       \* the timer threads started, in order: [c, id, success,
                  \* delay], the arguments of flash_led and the delay in ms
    faults,       \* channel-level failures so far
    nread,        \* lines read so far
    exitCause,    \* how the run loop was left: "none", "eof", "interrupt",
                  \* "error"; "ctor" when main was left before the loop
    closeCalls,   \* number of calls of transport.close()
    closeRaised   \* whether a call of close() raised

vars == <<mode, stack, st, serial, isOpen, opens, lock, wire, spawns, calls,
          timers, faults, nread, exitCause, closeCalls, closeRaised>>

chan == <<serial, isOpen, opens>>
hist == <<wire, spawns, calls, timers>>
fin == <<exitCause, closeCalls, closeRaised>>

Frame(pc, a, n, c) == [pc |-> pc, a |-> a, n |-> n, c |-> c]

Depth(t) == Len(stack[t])
Top(t) == stack[t][Len(stack[t])]
At(t, pc) == st[t] = "run" /\ stack[t] # <<>> /\ Top(t).pc = pc

\* the stack of t with its innermost frame replaced by frames
Replaced(t, frames) ==
    [stack EXCEPT ![t] = SubSeq(@, 1, Len(@) - 1) \o frames]

\* the stack of t after its innermost call returns v into the caller's local n
Returned(t, v) ==
    [stack EXCEPT ![t] =
        LET rest == SubSeq(@, 1, Len(@) - 1)
        IN  [rest EXCEPT ![Len(rest)].n = v]]

\* the stack of t after its innermost call returns text into the caller's a
ReturnedText(t, text, v) ==
    [stack EXCEPT ![t] =
        LET rest == SubSeq(@, 1, Len(@) - 1)
        IN  [rest EXCEPT ![Len(rest)].a = text, ![Len(rest)].n = v]]

Init ==
    /\ mode \in {"sim", "serial"}
    /\ stack = [t \in Threads |->
                  IF t = MAIN THEN <<Frame("m_start", <<>>, 0, 0)>> ELSE <<>>]
    /\ st = [t \in Threads |-> IF t = MAIN THEN "run" ELSE "new"]
    /\ serial = None
    /\ isOpen = {}
    /\ opens = 0
    /\ lock = Free
    /\ wire = <<>>
    /\ spawns = <<>>
    /\ calls = <<>>
    /\ timers = <<>>
    /\ faults = 0
    /\ nread = 0
    /\ exitCause = "none"
    /\ closeCalls = 0
    /\ closeRaised = FALSE

(* ---------------------------- exceptions ----------------------------- *)

\* the frames of send_line that hold the lock (inside "with self._lock")
HoldsLock(pc) == pc \in {"sl_write1", "sl_write2", "sl_nl", "sl_log", "sl_exc"}

\* flash_led(button_id, success) up to its send_led call: the frame that will
\* start the timer thread, and the send_line call of the BLINK command
FlashFrames(button_id, success, c) ==
    <<Frame("fl_thread", button_id, IF success THEN 1 ELSE 0, c),
      Frame("sl_acquire",
            LedCommand(button_id, BLINK, FlashPeriod(success)), 0, c)>>

\* main with close() after the try statement instead of in a finally block
LoopHandlerNoFinally(e) ==
    IF e = "KeyboardInterrupt" THEN "m_finally" ELSE "m_exit"

\* main, lines 286-289: where control goes when e leaves the run loop: the
\* finally block, for KeyboardInterrupt (after its except clause) and for
\* every other exception
LoopHandler(e) == "m_finally"

\* Exception e propagating up the stack stk: the stack where it is caught
\* (or <<>>: the thread dies) and whether the lock was released on the way.
RECURSIVE Unwind(_, _, _)
Unwind(stk, e, rel) ==
    IF stk = <<>> THEN [stk |-> <<>>, rel |-> rel]
    ELSE
      LET f == stk[Len(stk)]
          rest == SubSeq(stk, 1, Len(stk) - 1)
          caught(frames) == [stk |-> rest \o frames, rel |-> rel]
      IN
      CASE \* send_line, lines 77-79: the first write is inside try
           f.pc = "sl_write1" /\ e = "SerialException" ->
             caught(<<[f EXCEPT !.pc = "sl_exc"]>>)
        [] \* _connect_with_retry, lines 58-66: the handshake is inside try
           f.pc = "cr_loop" /\ e = "SerialException" ->
             caught(<<f>>)
        [] \* launch_program, lines 148-156: except Exception
           f.pc = "lp_try" /\ e \in {"SerialException", "AttributeError"} ->
             caught(<<[f EXCEPT !.pc = "lp_ret"]>>
                    \o FlashFrames(f.a, FALSE, f.c))
        [] \* main, lines 280-289: the run loop is inside try ... finally
           f.pc \in {"m_read", "m_got"} ->
             caught(<<[f EXCEPT !.pc = LoopHandler(e)]>>)
        [] \* main outside the try (the constructor, close() in finally)
           f.pc \in {"m_ctor", "m_exit"} ->
             caught(<<[f EXCEPT !.pc = "m_exit"]>>)
        [] OTHER ->
             Unwind(rest, e, rel \/ HoldsLock(f.pc))

\* thread t raises e at its innermost frame
Raise(t, e) ==
    LET u == Unwind(stack[t], e, FALSE)
        toMain == t = MAIN /\ Len(u.stk) = 1
        inHandle == t = MAIN /\ Depth(t) > 1 /\ stack[t][1].pc = "m_read"
        leftLoop == toMain /\ stack[t][1].pc \in {"m_read", "m_got"}
        leftCtor == toMain /\ stack[t][1].pc = "m_ctor"
    IN  /\ stack' = [stack EXCEPT ![t] = u.stk]
        /\ lock' = IF u.rel THEN Free ELSE lock
        /\ st' = IF u.stk = <<>> THEN [st EXCEPT ![t] = "died"] ELSE st
        /\ exitCause' =
              IF leftLoop \/ leftCtor
              THEN IF leftCtor THEN "ctor"
                   ELSE IF e = "KeyboardInterrupt" THEN "interrupt" ELSE "error"
              ELSE exitCause
        /\ calls' =
              IF inHandle /\ toMain
              THEN [calls EXCEPT ![Len(calls)].st =
                       IF e = "KeyboardInterrupt" THEN "int" ELSE "exc"]
              ELSE calls

(* ------------------------- SerialTransport --------------------------- *)

\* _require_serial, lines 69-71: the check, and the reset before reconnecting
\* (no lock is taken here: read_line calls it outside self._lock, so the value
\* returned at line 72 is read in a later step than the check)
RequireSerial(t) ==
    /\ At(t, "rs_check")
    /\ IF serial # None /\ serial \in isOpen
       THEN /\ stack' = Replaced(t, <<[Top(t) EXCEPT !.pc = "rs_ret"]>>)
            /\ serial' = serial
       ELSE /\ serial' = None
            /\ stack' = Replaced(t, <<[Top(t) EXCEPT !.pc = "rs_ret"],
                                      Frame("cr_loop", <<>>, 0, Top(t).c)>>)
    /\ UNCHANGED <<mode, st, isOpen, opens, lock, hist, faults, nread, fin>>

\* _require_serial, line 72: return self.serial, as it is now
RequireReturn(t) ==
    /\ At(t, "rs_ret")
    /\ stack' = Returned(t, serial)
    /\ UNCHANGED <<mode, st, chan, lock, hist, faults, nread, fin>>

\* _connect_with_retry, line 57: while self.serial is None
ConnectLoop(t) ==
    /\ At(t, "cr_loop")
    /\ IF serial = None
       THEN stack' = Replaced(t, <<[Top(t) EXCEPT !.pc = "cr_open"]>>)
       ELSE stack' = Replaced(t, <<>>)
    /\ UNCHANGED <<mode, st, chan, lock, hist, faults, nread, fin>>

\* _connect_with_retry, lines 60-62: the open succeeds, and after the settle
\* delay the handshake is sent through send_line
ConnectOpen(t) ==
    /\ At(t, "cr_open")
    /\ opens < MaxOpens
    /\ opens' = opens + 1
    /\ serial' = opens + 1
    /\ isOpen' = isOpen \cup {opens + 1}
    /\ stack' = Replaced(t, <<[Top(t) EXCEPT !.pc = "cr_loop"],
                              Frame("sl_acquire", HELLO, 0, Top(t).c)>>)
    /\ UNCHANGED <<mode, st, lock, hist, faults, nread, fin>>

\* _connect_with_retry, lines 64-66: the open raises SerialException; back off
ConnectOpenFails(t) ==
    /\ At(t, "cr_open")
    /\ faults < MaxFaults
    /\ faults' = faults + 1
    /\ stack' = Replaced(t, <<[Top(t) EXCEPT !.pc = "cr_loop"]>>)
    /\ UNCHANGED <<mode, st, chan, lock, hist, nread, fin>>

\* send_line(line) once the lock is taken: the simulation logs (line 108),
\* the hardware transport calls _require_serial for the write (line 78)
Acquired(line, c) ==
    IF mode = "sim"
    THEN <<Frame("sl_log", line, 0, c)>>
    ELSE <<Frame("sl_write1", line, 0, c), Frame("rs_check", <<>>, 0, c)>>

\* send_line entering its body without waiting for the lock
SendAcquireNoWait(t) ==
    /\ At(t, "sl_acquire")
    /\ lock' = t
    /\ stack' = Replaced(t, Acquired(Top(t).a, Top(t).c))
    /\ UNCHANGED <<mode, st, chan, hist, faults, nread, fin>>

\* send_line, line 76 (107 in the simulation): with self._lock
SendAcquire(t) ==
    /\ At(t, "sl_acquire")
    /\ lock = Free
    /\ lock' = t
    /\ stack' = Replaced(t, Acquired(Top(t).a, Top(t).c))
    /\ UNCHANGED <<mode, st, chan, hist, faults, nread, fin>>

\* the frame of a write in progress: the body is out, the newline is not
Chunk(t, h, data) == [h |-> h, t |-> t, data |-> data, c |-> Top(t).c]

\* send_line, lines 78 and 83: .write(payload) on the handle _require_serial
\* returned; the channel takes the body of the frame
SendWrite(t) ==
    /\ At(t, "sl_write1") \/ At(t, "sl_write2")
    /\ Top(t).n # None
    /\ Top(t).n \in isOpen
    /\ LET payload == Payload(Top(t).a)
       IN  wire' = Append(wire,
                     Chunk(t, Top(t).n, SubSeq(payload, 1, Len(payload) - 1)))
    /\ stack' = Replaced(t, <<[Top(t) EXCEPT !.pc = "sl_nl"]>>)
    /\ UNCHANGED <<mode, st, chan, lock, spawns, calls, timers, faults, nread, fin>>

\* .write(payload) raises SerialException and nothing reaches the wire: the
\* device fails, or the port was closed under the writer (PortNotOpenError
\* is a SerialException)
SendWriteFails(t) ==
    /\ At(t, "sl_write1") \/ At(t, "sl_write2")
    /\ Top(t).n # None
    /\ IF Top(t).n \in isOpen
       THEN faults < MaxFaults /\ faults' = faults + 1
       ELSE faults' = faults
    /\ Raise(t, "SerialException")
    /\ UNCHANGED <<mode, chan, wire, spawns, timers, nread, closeCalls, closeRaised>>

\* .write on None: _require_serial returned a handle another thread had
\* just reset; AttributeError is not a SerialException
SendWriteNone(t) ==
    /\ At(t, "sl_write1") \/ At(t, "sl_write2")
    /\ Top(t).n = None
    /\ Raise(t, "AttributeError")
    /\ UNCHANGED <<mode, chan, wire, spawns, timers, faults, nread, closeCalls,
                   closeRaised>>

\* the end of the write: the newline goes out, the lock is released on
\* leaving the with block, send_line returns
SendNewline(t) ==
    /\ At(t, "sl_nl")
    /\ wire' = Append(wire, Chunk(t, Top(t).n, <<NL>>))
    /\ lock' = Free
    /\ stack' = Replaced(t, <<>>)
    /\ st' = IF Depth(t) = 1 THEN [st EXCEPT ![t] = "done"] ELSE st
    /\ UNCHANGED <<mode, chan, spawns, calls, timers, faults, nread, fin>>

\* send_line, lines 79-83: the write failed; mark disconnected, reconnect,
\* then _require_serial().write(payload) once more
SendExcept(t) ==
    /\ At(t, "sl_exc")
    /\ serial' = None
    /\ stack' = Replaced(t, <<[Top(t) EXCEPT !.pc = "sl_write2"],
                              Frame("rs_check", <<>>, 0, Top(t).c),
                              Frame("cr_loop", <<>>, 0, Top(t).c)>>)
    /\ UNCHANGED <<mode, st, isOpen, opens, lock, hist, faults, nread, fin>>

\* read_line, line 88: readline returns data (or nothing, on timeout);
\* lines 93-96: decode, strip
ReadLine(t) ==
    /\ At(t, "rl_read")
    /\ Top(t).n # None
    /\ nread < MaxLines
    /\ nread' = nread + 1
    /\ \E data \in SerialInputs :
         stack' = ReturnedText(t, Strip(Decode(data)), 0)
    /\ UNCHANGED <<mode, st, chan, lock, hist, faults, fin>>

\* read_line reconnecting inline when readline raises
ReadLineFailsReconnects(t) ==
    /\ At(t, "rl_read")
    /\ Top(t).n # None
    /\ faults < MaxFaults
    /\ faults' = faults + 1
    /\ serial' = None
    /\ stack' = Replaced(t, <<Top(t), Frame("rs_check", <<>>, 0, 0)>>)
    /\ UNCHANGED <<mode, st, isOpen, opens, lock, hist, nread, fin>>

\* read_line, lines 89-92: readline raises SerialException
ReadLineFails(t) ==
    /\ At(t, "rl_read")
    /\ Top(t).n # None
    /\ faults < MaxFaults
    /\ faults' = faults + 1
    /\ serial' = None
    /\ stack' = ReturnedText(t, <<>>, 0)
    /\ UNCHANGED <<mode, st, isOpen, opens, lock, hist, nread, fin>>

\* ser.readline() on None
ReadLineNone(t) ==
    /\ At(t, "rl_read")
    /\ Top(t).n = None
    /\ Raise(t, "AttributeError")
    /\ UNCHANGED <<mode, chan, wire, spawns, timers, faults, nread, closeCalls,
                   closeRaised>>

\* close, line 99: if self.serial and self.serial.is_open (without the lock;
\* line 100 reads self.serial again)
CloseCheck(t) ==
    /\ At(t, "cl_check")
    /\ IF serial # None /\ serial \in isOpen
       THEN stack' = Replaced(t, <<[Top(t) EXCEPT !.pc = "cl_close"]>>)
       ELSE stack' = Replaced(t, <<>>)
    /\ UNCHANGED <<mode, st, chan, lock, hist, faults, nread, fin>>

\* close, line 100: self.serial.close()
CloseClose(t) ==
    /\ At(t, "cl_close")
    /\ serial # None
    /\ isOpen' = isOpen \ {serial}
    /\ stack' = Replaced(t, <<>>)
    /\ UNCHANGED <<mode, st, serial, opens, lock, hist, faults, nread, fin>>

\* close, line 100, when self.serial was reset since the check
CloseNone(t) ==
    /\ At(t, "cl_close")
    /\ serial = None
    /\ closeRaised' = TRUE
    /\ Raise(t, "AttributeError")
    /\ UNCHANGED <<mode, chan, wire, spawns, timers, faults, nread, closeCalls>>

(* ------------------------ SimulationTransport ------------------------ *)

\* send_line, line 108: the line is logged
SimLog(t) ==
    /\ At(t, "sl_log")
    /\ wire' = Append(wire, Chunk(t, None, Top(t).a))
    /\ stack' = Replaced(t, <<[Top(t) EXCEPT !.pc = "sl_nl"]>>)
    /\ UNCHANGED <<mode, st, chan, lock, spawns, calls, timers, faults, nread, fin>>

(* --------------------------- ButtonDriver ---------------------------- *)

SpawnOutcomes == {"ok", "FileNotFoundError", "OSError"}

\* launch_program flashing success whatever Popen did
SpawnAlwaysSuccess(t) ==
    /\ At(t, "lp_spawn")
    /\ \E out \in SpawnOutcomes :
         /\ spawns' = Append(spawns,
                        [c |-> Top(t).c, cmd |-> programs[Top(t).a], out |-> out,
                         at |-> Len(wire)])
         /\ stack' = Replaced(t, <<[Top(t) EXCEPT !.pc = "lp_try"]>>
                                 \o FlashFrames(Top(t).a, TRUE, Top(t).c))
    /\ UNCHANGED <<mode, st, chan, lock, wire, calls, timers, faults, nread, fin>>

\* launch_program sending the success flash first and calling Popen after it
SpawnAfterFlash(t) ==
    /\ At(t, "lp_spawn")
    /\ IF Top(t).n = 0
       THEN /\ spawns' = spawns
            /\ stack' = Replaced(t, <<[Top(t) EXCEPT !.n = 1]>>
                                    \o FlashFrames(Top(t).a, TRUE, Top(t).c))
       ELSE /\ \E out \in SpawnOutcomes :
                 spawns' = Append(spawns,
                             [c |-> Top(t).c, cmd |-> programs[Top(t).a],
                              out |-> out, at |-> Len(wire)])
            /\ stack' = Replaced(t, <<[Top(t) EXCEPT !.pc = "lp_ret"]>>)
    /\ UNCHANGED <<mode, st, chan, lock, wire, calls, timers, faults, nread, fin>>

\* launch_program, lines 146-156: subprocess.Popen(command), then the flash
\* for its outcome; the success flash is called inside the try block
Spawn(t) ==
    /\ At(t, "lp_spawn")
    /\ \E out \in SpawnOutcomes :
         /\ spawns' = Append(spawns,
                        [c |-> Top(t).c, cmd |-> programs[Top(t).a], out |-> out,
                         at |-> Len(wire)])
         /\ stack' =
              Replaced(t,
                <<[Top(t) EXCEPT !.pc = IF out = "ok" THEN "lp_try" ELSE "lp_ret"]>>
                \o FlashFrames(Top(t).a, out = "ok", Top(t).c))
    /\ UNCHANGED <<mode, st, chan, lock, wire, calls, timers, faults, nread, fin>>

\* the thread flash_led starts: _delayed_led_off(button_id, duration / 1000.0)
NewTimer == CHOOSE k \in Timers : st[k] = "new" /\ \A j \in Timers : j < k => st[j] # "new"

\* flash_led cancelling the pending timer tasks of the same button before it
\* starts the new one
StartTimerCancelsPending(t) ==
    /\ At(t, "fl_thread")
    /\ \E k \in Timers : st[k] = "new"
    /\ LET pending == {k \in Timers : At(k, "off_sleep") /\ Top(k).a = Top(t).a}
       IN  /\ st' = [k \in Threads |->
                       IF k = NewTimer THEN "run"
                       ELSE IF k \in pending THEN "cancelled" ELSE st[k]]
           /\ stack' = [k \in Threads |->
                          IF k = NewTimer
                          THEN <<Frame("off_sleep", Top(t).a,
                                       FlashDuration(Top(t).n = 1), Top(t).c)>>
                          ELSE IF k \in pending THEN <<>>
                          ELSE Replaced(t, <<>>)[k]]
    /\ timers' = Append(timers,
                    [c |-> Top(t).c, id |-> Top(t).a, success |-> Top(t).n = 1,
                     delay |-> FlashDuration(Top(t).n = 1)])
    /\ UNCHANGED <<mode, chan, lock, wire, spawns, calls, faults, nread, fin>>

\* flash_led, lines 169-173: threading.Thread(...).start(), then return
StartTimer(t) ==
    /\ At(t, "fl_thread")
    /\ \E k \in Timers : st[k] = "new"
    /\ st' = [st EXCEPT ![NewTimer] = "run"]
    /\ stack' = [Replaced(t, <<>>) EXCEPT ![NewTimer] =
                   <<Frame("off_sleep", Top(t).a,
                           FlashDuration(Top(t).n = 1), Top(t).c)>>]
    /\ timers' = Append(timers,
                    [c |-> Top(t).c, id |-> Top(t).a, success |-> Top(t).n = 1,
                     delay |-> FlashDuration(Top(t).n = 1)])
    /\ UNCHANGED <<mode, chan, lock, wire, spawns, calls, faults, nread, fin>>

\* launch_program returns (lines 145, 150, 153, 156), and handle_line with it
LaunchReturn(t) ==
    /\ At(t, "lp_try") \/ At(t, "lp_ret")
    /\ stack' = Replaced(t, <<>>)
    /\ calls' = [calls EXCEPT ![Top(t).c].st = "ret"]
    /\ UNCHANGED <<mode, st, chan, lock, wire, spawns, timers, faults, nread, fin>>

\* _delayed_led_off, lines 176-177: the sleep is over, send_led(id, "OFF")
\* calls send_line, which takes the lock; the thread ends when send_line
\* returns (or raises)
TimerFire(t) ==
    /\ At(t, "off_sleep")
    /\ lock = Free
    /\ lock' = t
    /\ stack' = Replaced(t, Acquired(LedCommand(Top(t).a, OFF, -1), Top(t).c))
    /\ UNCHANGED <<mode, st, chan, hist, faults, nread, fin>>

(* ------------------------------- main -------------------------------- *)

\* main, lines 268-278: the transport is constructed; SerialTransport's
\* constructor calls _connect_with_retry (line 53)
MainStart ==
    /\ At(MAIN, "m_start")
    /\ stack' =
         IF mode = "sim"
         THEN Replaced(MAIN, <<[Top(MAIN) EXCEPT !.pc = "m_read"]>>)
         ELSE Replaced(MAIN, <<[Top(MAIN) EXCEPT !.pc = "m_ctor"],
                               Frame("cr_loop", <<>>, 0, 0)>>)
    /\ UNCHANGED <<mode, st, chan, lock, hist, faults, nread, fin>>

\* the constructor returned; the driver is built and the try block entered
MainCtorDone ==
    /\ At(MAIN, "m_ctor")
    /\ stack' = Replaced(MAIN, <<[Top(MAIN) EXCEPT !.pc = "m_read"]>>)
    /\ UNCHANGED <<mode, st, chan, lock, hist, faults, nread, fin>>

\* main, line 282, hardware: transport.read_line(), which starts with
\* _require_serial (line 86)
MainRead ==
    /\ At(MAIN, "m_read")
    /\ mode = "serial"
    /\ stack' = Replaced(MAIN, <<[Top(MAIN) EXCEPT !.pc = "m_got"],
                                 Frame("rl_read", <<>>, 0, 0),
                                 Frame("rs_check", <<>>, 0, 0)>>)
    /\ UNCHANGED <<mode, st, chan, lock, hist, faults, nread, fin>>

\* main, line 282, simulation: read_line (lines 111-114) returns the typed
\* line stripped, or None at end of input
SimRead ==
    /\ At(MAIN, "m_read")
    /\ mode = "sim"
    /\ \/ /\ nread < MaxLines
          /\ nread' = nread + 1
          /\ \E typed \in Inputs :
               stack' = Replaced(MAIN,
                  <<[Top(MAIN) EXCEPT !.pc = "m_got", !.a = Strip(typed), !.n = 0]>>)
       \/ /\ nread' = nread
          /\ stack' = Replaced(MAIN, <<[Top(MAIN) EXCEPT !.pc = "m_got", !.n = 1]>>)
    /\ UNCHANGED <<mode, st, chan, lock, hist, faults, fin>>

\* main breaking out of the loop on every falsy line ("if not line: break")
LineIsFalsy(f) == f.n = 1 \/ f.a = <<>>

\* main, line 283: if line is None (n = 1 stands for None)
LineIsNone(f) == f.n = 1

\* main, lines 283-285, and handle_line, lines 126-139, up to the call of
\* launch_program (lines 142-147)
MainGot ==
    /\ At(MAIN, "m_got")
    /\ LET line == Top(MAIN).a
           c == Len(calls) + 1
           launch == Dispatch(line) = "launch"
           back == [Top(MAIN) EXCEPT !.pc = "m_read"]
       IN  IF LineIsNone(Top(MAIN))
           THEN /\ stack' = Replaced(MAIN, <<[Top(MAIN) EXCEPT !.pc = "m_finally"]>>)
                /\ exitCause' = "eof"
                /\ calls' = calls
           ELSE /\ exitCause' = exitCause
                /\ calls' = Append(calls,
                     [line |-> line, st |-> IF launch THEN "run" ELSE "ret"])
                /\ stack' =
                     IF ~launch THEN Replaced(MAIN, <<back>>)
                     ELSE IF ButtonId(line) \notin DOMAIN programs
                     THEN Replaced(MAIN,
                            <<back, Frame("lp_ret", ButtonId(line), 0, c)>>
                            \o FlashFrames(ButtonId(line), FALSE, c))
                     ELSE Replaced(MAIN,
                            <<back, Frame("lp_spawn", ButtonId(line), 0, c)>>)
    /\ UNCHANGED <<mode, st, chan, lock, wire, spawns, timers, faults, nread,
                   closeCalls, closeRaised>>

\* KeyboardInterrupt in the foreground thread, inside the try block of main
\* or while the transport is being constructed (a write that has begun
\* completes first)
Interrupt ==
    /\ st[MAIN] = "run"
    /\ stack[MAIN][1].pc \in {"m_read", "m_got", "m_ctor"}
    /\ ~At(MAIN, "sl_nl")
    /\ Raise(MAIN, "KeyboardInterrupt")
    /\ UNCHANGED <<mode, chan, wire, spawns, timers, faults, nread, closeCalls,
                   closeRaised>>

\* main, lines 288-289: finally: transport.close()
MainFinally ==
    /\ At(MAIN, "m_finally")
    /\ closeCalls' = closeCalls + 1
    /\ stack' =
         IF mode = "sim"
         THEN Replaced(MAIN, <<[Top(MAIN) EXCEPT !.pc = "m_exit"]>>)
         ELSE Replaced(MAIN, <<[Top(MAIN) EXCEPT !.pc = "m_exit"],
                               Frame("cl_check", <<>>, 0, 0)>>)
    /\ UNCHANGED <<mode, st, chan, lock, hist, faults, nread, exitCause,
                   closeRaised>>

\* close() called once more, right after a close() that returned
CloseAgain ==
    /\ At(MAIN, "m_exit")
    /\ closeCalls >= 1
    /\ ~closeRaised
    /\ closeCalls <= MaxClose
    /\ closeCalls' = closeCalls + 1
    /\ stack' =
         IF mode = "sim"
         THEN stack
         ELSE Replaced(MAIN, <<Top(MAIN), Frame("cl_check", <<>>, 0, 0)>>)
    /\ UNCHANGED <<mode, st, chan, lock, hist, faults, nread, exitCause,
                   closeRaised>>

\* main returns and the process exits: the daemon threads end with it (a
\* write that has begun completes first)
ProcessExit ==
    /\ At(MAIN, "m_exit")
    /\ \A t \in Timers : ~At(t, "sl_nl")
    /\ st' = [t \in Threads |->
                IF t = MAIN THEN "done"
                ELSE IF st[t] = "run" THEN "killed" ELSE st[t]]
    /\ stack' = [t \in Threads |-> <<>>]
    /\ UNCHANGED <<mode, chan, lock, hist, faults, nread, fin>>

(* ------------------------- the specification ------------------------- *)

Next ==
    \/ MainStart
    \/ MainCtorDone
    \/ MainRead
    \/ SimRead
    \/ MainGot
    \/ Interrupt
    \/ MainFinally
    \/ CloseAgain
    \/ ProcessExit
    \/ \E t \in Threads : RequireSerial(t)
    \/ \E t \in Threads : RequireReturn(t)
    \/ \E t \in Threads : ConnectLoop(t)
    \/ \E t \in Threads : ConnectOpen(t)
    \/ \E t \in Threads : ConnectOpenFails(t)
    \/ \E t \in Threads : SendAcquire(t)
    \/ \E t \in Threads : SendWrite(t)
    \/ \E t \in Threads : SendWriteFails(t)
    \/ \E t \in Threads : SendWriteNone(t)
    \/ \E t \in Threads : SendNewline(t)
    \/ \E t \in Threads : SendExcept(t)
    \/ \E t \in Threads : SimLog(t)
    \/ ReadLine(MAIN)
    \/ ReadLineFails(MAIN)
    \/ ReadLineNone(MAIN)
    \/ CloseCheck(MAIN)
    \/ CloseClose(MAIN)
    \/ CloseNone(MAIN)
    \/ Spawn(MAIN)
    \/ StartTimer(MAIN)
    \/ LaunchReturn(MAIN)
    \/ \E t \in Timers : TimerFire(t)

Spec == Init /\ [][Next]_vars

\* the steps of a timer thread: _delayed_led_off and what it calls
TimerStep(t) ==
    \/ TimerFire(t)
    \/ RequireSerial(t)
    \/ RequireReturn(t)
    \/ ConnectLoop(t)
    \/ ConnectOpen(t)
    \/ SendAcquire(t)
    \/ SendWrite(t)
    \/ SendWriteFails(t)
    \/ SendWriteNone(t)
    \/ SendNewline(t)
    \/ SendExcept(t)
    \/ SimLog(t)

\* the steps of the foreground thread that take it from one read to the
\* next: a send_line in progress goes on (the process keeps running)
MainStep ==
    \/ MainGot
    \/ Spawn(MAIN)
    \/ StartTimer(MAIN)
    \/ LaunchReturn(MAIN)
    \/ RequireSerial(MAIN)
    \/ RequireReturn(MAIN)
    \/ ConnectLoop(MAIN)
    \/ ConnectOpen(MAIN)
    \/ SendAcquire(MAIN)
    \/ SendWrite(MAIN)
    \/ SendWriteFails(MAIN)
    \/ SendWriteNone(MAIN)
    \/ SendNewline(MAIN)
    \/ SendExcept(MAIN)
    \/ SimLog(MAIN)

\* .write(payload) on a port that close() has closed: PortNotOpenError
PortClosedWrite(t) ==
    /\ At(t, "sl_write1") \/ At(t, "sl_write2")
    /\ Top(t).n \notin isOpen
    /\ SendWriteFails(t)

\* the program with a device that does not fail: every open succeeds, and no
\* write or read raises on an open port
HealthyNext ==
    \/ MainStart
    \/ MainCtorDone
    \/ MainRead
    \/ SimRead
    \/ MainGot
    \/ Interrupt
    \/ MainFinally
    \/ CloseAgain
    \/ ProcessExit
    \/ \E t \in Threads : RequireSerial(t)
    \/ \E t \in Threads : RequireReturn(t)
    \/ \E t \in Threads : ConnectLoop(t)
    \/ \E t \in Threads : ConnectOpen(t)
    \/ \E t \in Threads : SendAcquire(t)
    \/ \E t \in Threads : SendWrite(t)
    \/ \E t \in Threads : PortClosedWrite(t)
    \/ \E t \in Threads : SendNewline(t)
    \/ \E t \in Threads : SendExcept(t)
    \/ \E t \in Threads : SimLog(t)
    \/ ReadLine(MAIN)
    \/ CloseCheck(MAIN)
    \/ CloseClose(MAIN)
    \/ Spawn(MAIN)
    \/ StartTimer(MAIN)
    \/ LaunchReturn(MAIN)
    \/ \E t \in Timers : TimerFire(t)

\* every running thread is scheduled: a timer thread whose sleep is over and
\* a send_line that can go on are not held up forever
HealthySpec ==
    /\ Init
    /\ [][HealthyNext]_vars
    /\ WF_vars(MainStep)
    /\ \A t \in Timers : WF_vars(TimerStep(t))

(* --------------------- the simulated input stream -------------------- *)

Btn1Down == <<"B", "T", "N", BAR, "1", BAR, "D", "O", "W", "N">>
Btn9Down == <<"B", "T", "N", BAR, "9", BAR, "D", "O", "W", "N">>
Garbage == <<"G", "A", "R", "B", "A", "G", "E">>
Btn2Down == <<"B", "T", "N", BAR, "2", BAR, "D", "O", "W", "N">>

\* the lines fed to the simulation transport, in order
ScenarioStream == <<Btn1Down, Btn9Down, Garbage, Btn2Down>>

ScenarioInit == Init /\ mode = "sim"

\* main, line 282, simulation: read_line returns the next line of the
\* stream, stripped (line 112), or None when the stream has ended (line 114)
ScenarioRead ==
    /\ At(MAIN, "m_read")
    /\ mode = "sim"
    /\ IF nread < Len(ScenarioStream)
       THEN /\ nread' = nread + 1
            /\ stack' = Replaced(MAIN,
                  <<[Top(MAIN) EXCEPT !.pc = "m_got",
                                      !.a = Strip(ScenarioStream[nread + 1]),
                                      !.n = 0]>>)
       ELSE /\ nread' = nread
            /\ stack' = Replaced(MAIN, <<[Top(MAIN) EXCEPT !.pc = "m_got", !.n = 1]>>)
    /\ UNCHANGED <<mode, st, chan, lock, hist, faults, fin>>

ScenarioNext ==
    \/ MainStart
    \/ ScenarioRead
    \/ MainGot
    \/ Interrupt
    \/ MainFinally
    \/ CloseAgain
    \/ ProcessExit
    \/ \E t \in Threads : SendAcquire(t)
    \/ \E t \in Threads : SimLog(t)
    \/ \E t \in Threads : SendNewline(t)
    \/ Spawn(MAIN)
    \/ StartTimer(MAIN)
    \/ LaunchReturn(MAIN)
    \/ \E t \in Timers : TimerFire(t)

ScenarioSpec == ScenarioInit /\ [][ScenarioNext]_vars

(* ------------------------- reading the history ----------------------- *)

Calls == 1..Len(calls)

\* the complete lines on the wire: a body followed by its newline
SentLine(i) ==
    /\ i \in 1..(Len(wire) - 1)
    /\ wire[i].data # <<NL>>
    /\ wire[i + 1].data = <<NL>>
    /\ wire[i + 1].t = wire[i].t
    /\ wire[i + 1].h = wire[i].h

\* where the line text was sent for call c
SentFor(c, text) ==
    {i \in 1..Len(wire) : SentLine(i) /\ wire[i].c = c /\ wire[i].data = text}

IsDown(c) == Dispatch(calls[c].line) = "launch"
IdOf(c) == ButtonId(calls[c].line)
Mapped(c) == IsDown(c) /\ IdOf(c) \in DOMAIN programs

SpawnsOf(c) == {i \in 1..Len(spawns) : spawns[i].c = c}
SpawnOk(c) == \E i \in SpawnsOf(c) : spawns[i].out = "ok"
SpawnFailed(c) == \E i \in SpawnsOf(c) : spawns[i].out # "ok"

SuccessBlinks(c) == SentFor(c, LedCommand(IdOf(c), BLINK, SuccessPeriod))
FailureBlinks(c) == SentFor(c, LedCommand(IdOf(c), BLINK, FailurePeriod))
Offs(c) == SentFor(c, LedCommand(IdOf(c), OFF, -1))
TimersOf(c) == {k \in 1..Len(timers) : timers[k].c = c}

\* the LED-off timer of call c ran to its end
TimerCompleted(c) == \E k \in TimersOf(c) : st[k] = "done"

Exited == st[MAIN] = "done"

\* a flash of call c, as far as it can be guaranteed: one BLINK of the given
\* kind and none of the other, one timer task, at most one OFF, after the
\* BLINK, and exactly one OFF once the timer task ran to its end
FlashedOnce(c, blinks, others) ==
    /\ Cardinality(blinks) = 1
    /\ others = {}
    /\ Cardinality(TimersOf(c)) = 1
    /\ Cardinality(Offs(c)) <= 1
    /\ \A i \in Offs(c) : \A j \in blinks : j < i
    /\ TimerCompleted(c) => Cardinality(Offs(c)) = 1

(* ------------------------------ claim C1 ----------------------------- *)

\* C1, as claimed: every BTN|<id>|DOWN call with a mapped id and a successful
\* spawn has, when all is over, made one spawn with the registered command,
\* sent one success BLINK, no failure BLINK, and exactly one OFF.
C1_ExactlyOneOff ==
    Exited =>
      \A c \in Calls :
        (Mapped(c) /\ SpawnOk(c) /\ calls[c].st = "ret") =>
          /\ Cardinality(SpawnsOf(c)) = 1
          /\ Cardinality(SuccessBlinks(c)) = 1
          /\ FailureBlinks(c) = {}
          /\ Cardinality(Offs(c)) = 1

\* C1, amended: a returned call for a mapped id whose spawn succeeded made
\* exactly one spawn, with the registered command, sent exactly one success
\* BLINK and no failure BLINK, and started exactly one timer task with the
\* success duration; at most one OFF follows the BLINK, and exactly one once
\* the timer task has run to its end (the process may exit before it does).
C1_SuccessFlash ==
    \A c \in Calls :
      (Mapped(c) /\ SpawnOk(c)) =>
        /\ Cardinality(SpawnsOf(c)) = 1
        /\ \A i \in SpawnsOf(c) : spawns[i].cmd = programs[IdOf(c)]
        /\ FailureBlinks(c) = {}
        /\ Cardinality(SuccessBlinks(c)) <= 1
        /\ calls[c].st = "ret" =>
             /\ FlashedOnce(c, SuccessBlinks(c), FailureBlinks(c))
             /\ \A k \in TimersOf(c) : timers[k].delay = success_flash_ms

\* a success flash that ran to its end on the hardware transport: BLINK and OFF sent
C1_Witness ==
    \E c \in Calls :
      /\ mode = "serial"
      /\ Mapped(c) /\ SpawnOk(c) /\ calls[c].st = "ret"
      /\ TimerCompleted(c)
      /\ Cardinality(Offs(c)) = 1

(* ------------------------------ claim C2 ----------------------------- *)

\* C2, as claimed: every BTN|<id>|DOWN call with an unmapped id has, when all
\* is over, made no spawn, sent one failure BLINK and exactly one OFF, and
\* let no exception escape.
C2_ExactlyOneOff ==
    Exited =>
      \A c \in Calls :
        (IsDown(c) /\ ~Mapped(c) /\ calls[c].st # "int") =>
          /\ SpawnsOf(c) = {}
          /\ calls[c].st = "ret"
          /\ Cardinality(FailureBlinks(c)) = 1
          /\ Cardinality(Offs(c)) = 1

\* C2, amended: a call for an unmapped id makes no spawn and lets no
\* exception escape; once returned it has sent exactly one failure BLINK, no
\* success BLINK, and started exactly one timer task with the failure
\* duration; at most one OFF follows the BLINK, and exactly one once the
\* timer task has run to its end.
C2_UnmappedFlash ==
    \A c \in Calls :
      (IsDown(c) /\ ~Mapped(c)) =>
        /\ SpawnsOf(c) = {}
        /\ calls[c].st # "exc"
        /\ SuccessBlinks(c) = {}
        /\ Cardinality(FailureBlinks(c)) <= 1
        /\ calls[c].st = "ret" =>
             /\ FlashedOnce(c, FailureBlinks(c), SuccessBlinks(c))
             /\ \A k \in TimersOf(c) : timers[k].delay = error_flash_ms

\* a failure flash for an unmapped button that ran to its end
C2_Witness ==
    \E c \in Calls :
      /\ IsDown(c) /\ ~Mapped(c) /\ calls[c].st = "ret"
      /\ TimerCompleted(c)
      /\ Cardinality(Offs(c)) = 1

(* ------------------------------ claim C3 ----------------------------- *)

\* C3, as claimed: when the spawn of a mapped command fails, there is one
\* spawn attempt, no success BLINK, one failure BLINK and exactly one OFF
\* when all is over, and no exception escapes.
C3_ExactlyOneOff ==
    Exited =>
      \A c \in Calls :
        (Mapped(c) /\ SpawnFailed(c) /\ calls[c].st # "int") =>
          /\ Cardinality(SpawnsOf(c)) = 1
          /\ calls[c].st = "ret"
          /\ SuccessBlinks(c) = {}
          /\ Cardinality(FailureBlinks(c)) = 1
          /\ Cardinality(Offs(c)) = 1

\* C3, amended: when the spawn of a mapped command fails (executable not
\* found or another error) there is exactly one spawn attempt, no success
\* BLINK and no escaping exception; once launch_program has returned it has
\* sent exactly one failure BLINK and started exactly one timer task; at most
\* one OFF follows the BLINK, and exactly one once the timer task has run to
\* its end.
C3_LaunchFailureFlash ==
    \A c \in Calls :
      (Mapped(c) /\ SpawnFailed(c)) =>
        /\ Cardinality(SpawnsOf(c)) = 1
        /\ calls[c].st # "exc"
        /\ SuccessBlinks(c) = {}
        /\ Cardinality(FailureBlinks(c)) <= 1
        /\ calls[c].st = "ret" =>
             /\ FlashedOnce(c, FailureBlinks(c), SuccessBlinks(c))
             /\ \A k \in TimersOf(c) : timers[k].delay = error_flash_ms

\* both kinds of spawn failure were flashed as failures, to the end
C3_Witness ==
    /\ \E c \in Calls :
         /\ Mapped(c) /\ calls[c].st = "ret" /\ TimerCompleted(c)
         /\ \E i \in SpawnsOf(c) : spawns[i].out = "FileNotFoundError"
    /\ \E c \in Calls :
         /\ Mapped(c) /\ calls[c].st = "ret"
         /\ \E i \in SpawnsOf(c) : spawns[i].out = "OSError"

(* ------------------------------ claim C4 ----------------------------- *)

BTN == <<"B", "T", "N">>
DOWN == <<"D", "O", "W", "N">>

\* the lines the claim is about: all but BTN lines with 3 or more fields and
\* the action DOWN
NoEffectLine(line) ==
    \/ line = <<>>
    \/ UpperStr(Split(line)[1]) # BTN
    \/ Len(Split(line)) < 3
    \/ UpperStr(Split(line)[3]) # DOWN

\* C4: handle_line on a line that is not a BTN ... DOWN line (empty, another
\* topic, READY, BTN with fewer than 3 fields, BTN with another action) makes
\* no spawn, sends nothing, starts no timer task and returns without raising.
C4_NoSideEffects ==
    \A c \in Calls :
      NoEffectLine(calls[c].line) =>
        /\ SpawnsOf(c) = {}
        /\ \A i \in 1..Len(wire) : wire[i].c # c
        /\ TimersOf(c) = {}
        /\ calls[c].st = "ret"

\* a BTN ... UP line was handled after a DOWN line that flashed
C4_Witness ==
    /\ Len(calls) = 2
    /\ IsDown(1) /\ Offs(1) # {}
    /\ calls[2].line = LineUp
    /\ Exited

(* ------------------------------ claim C5 ----------------------------- *)

\* thread t is inside a write: the body of its frame is out, the newline is not
InWrite(t) == At(t, "sl_nl")

\* C5: at most one thread is inside a write to the channel, and the wire
\* holds whole frames only: every body is directly followed by its own
\* newline, or is the last chunk and its writer is still writing.
C5_WritesSerialized ==
    /\ Cardinality({t \in Threads : InWrite(t)}) <= 1
    /\ \A i \in 1..Len(wire) :
         wire[i].data # <<NL>> =>
           \/ SentLine(i)
           \/ i = Len(wire) /\ InWrite(wire[i].t)
    /\ \A i \in 1..Len(wire) :
         wire[i].data = <<NL>> => i > 1 /\ SentLine(i - 1)

\* one timer task is inside its write while the foreground thread and the
\* other timer task want to send
C5_Witness ==
    \E k \in Timers, j \in Timers :
      /\ k # j
      /\ InWrite(k)
      /\ At(j, "off_sleep")
      /\ At(MAIN, "sl_acquire")

(* ------------------------------ claim C6 ----------------------------- *)

\* thread t waits for the lock that it holds itself (threading.Lock is not
\* reentrant): it waits forever
SelfBlocked(t) == At(t, "sl_acquire") /\ lock = t

\* the send_line of thread t caught a write failure: it marked the channel
\* disconnected and is reconnecting or retrying
Recovering(t) ==
    st[t] = "run" /\ \E i \in 1..Depth(t) : stack[t][i].pc = "sl_write2"

\* C6: a send_line whose write failed completes the reconnect procedure
\* (open, settle, handshake) and goes on to retry the write: it never gets
\* stuck in the reconnect.
C6_ReconnectsAndRetries ==
    \A t \in Threads : Recovering(t) => ~SelfBlocked(t)

(* ------------------------------ claim C7 ----------------------------- *)

\* the step in which readline raises in the foreground thread
ReadFailedStep ==
    /\ At(MAIN, "rl_read")
    /\ faults' = faults + 1
    /\ stack'[MAIN] # stack[MAIN]

\* C7: when readline fails, read_line marks the channel disconnected and
\* returns the empty string to the run loop in that same step: it does not
\* raise, does not leave the loop and does not open the device.
C7_ReadFailureDeferred ==
    [][ReadFailedStep =>
         /\ serial' = None
         /\ opens' = opens
         /\ stack'[MAIN] = <<Frame("m_got", <<>>, 0, 0)>>
         /\ st' = st
         /\ exitCause' = exitCause]_vars

\* read_line has returned the empty string after a read failure, the channel
\* is marked disconnected and nothing was reopened
C7_Witness ==
    /\ At(MAIN, "m_got")
    /\ Top(MAIN) = Frame("m_got", <<>>, 0, 0)
    /\ serial = None
    /\ faults = 1
    /\ opens = 1
    /\ timers = <<>>

(* ------------------------------ claim C8 ----------------------------- *)

\* the foreground thread is in the constructor of SerialTransport
InCtor == st[MAIN] = "run" /\ stack[MAIN][1].pc = "m_ctor"

\* C8: the connect procedure of the constructor does not get stuck once an
\* open has succeeded, and when it has returned the transport is Connected
\* and the handshake HELLO|PC was sent on the handle it holds.
C8_ConnectReturns ==
    /\ InCtor => ~SelfBlocked(MAIN)
    /\ At(MAIN, "m_ctor") =>
         /\ serial # None /\ serial \in isOpen
         /\ \E i \in SentFor(0, HELLO) : wire[i].h = serial

(* ------------------------------ claim C9 ----------------------------- *)

\* C9: no call of close() raises, however often it is called and whatever
\* the state of the channel.
C9_CloseNeverRaises == ~closeRaised

(* ------------------------------ claim C10 ---------------------------- *)

\* C10: when main is left after the run loop was entered (end of input, an
\* interrupt, an error out of read_line or handle_line), transport.close()
\* has been called.
C10_CloseOnEveryExit ==
    ((Exited \/ At(MAIN, "m_exit")) /\ exitCause \in {"eof", "interrupt", "error"})
      => closeCalls >= 1

\* the run loop was left by an error raised in read_line, and close() was called
C10_Witness ==
    /\ Exited
    /\ exitCause = "error"
    /\ closeCalls >= 1

(* ------------------------------ claim C11 ---------------------------- *)

LED == <<"L", "E", "D">>

\* the LED lines on the wire: every line but the handshake
LedLines == {i \in 1..Len(wire) : SentLine(i) /\ wire[i].data # HELLO}

\* the line at i is LED|<id>|BLINK|<period> or LED|<id>|OFF for the button id
\* of the call it was sent for
WellFormedLed(i) ==
    LET fields == Split(wire[i].data)
    IN  /\ Len(fields) \in {3, 4}
        /\ fields[1] = LED
        /\ wire[i].c \in Calls
        /\ fields[2] = IdOf(wire[i].c)
        /\ fields[3] \in {BLINK, OFF}
        /\ Len(fields) = 4 <=> fields[3] = BLINK
        /\ Len(fields) = 4 => fields[4] \in {<<"1", "8", "0">>, <<"8", "0">>}

\* C11: send_led(3, BLINK, 180) builds exactly LED|3|BLINK|180 and
\* send_led(3, OFF) exactly LED|3|OFF; every LED line the driver has sent is
\* LED|<id>|<mode> with a fourth field, the period, exactly when the mode is
\* BLINK; and each send_led call put at most one line on the channel: a call
\* of handle_line has at most one BLINK line and one OFF line per timer task.
C11_LedLineFormat ==
    /\ LedCommand(<<"3">>, BLINK, 180) =
          <<"L", "E", "D", "|", "3", "|", "B", "L", "I", "N", "K", "|",
            "1", "8", "0">>
    /\ LedCommand(<<"3">>, OFF, -1) = <<"L", "E", "D", "|", "3", "|", "O", "F", "F">>
    /\ \A i \in LedLines : WellFormedLed(i)
    /\ \A c \in Calls :
         /\ Cardinality({i \in LedLines : wire[i].c = c
                                          /\ Split(wire[i].data)[3] = BLINK}) <= 1
         /\ Cardinality({i \in LedLines : wire[i].c = c
                                          /\ Split(wire[i].data)[3] = OFF})
               <= Cardinality(TimersOf(c))

\* the hardware channel carries LED|1|BLINK|180 followed by LED|1|OFF, and
\* the failure BLINK of button 9
C11_Witness ==
    /\ mode = "serial"
    /\ \E i \in LedLines, j \in LedLines, k \in LedLines :
         /\ i < j
         /\ wire[i].data = <<"L", "E", "D", "|", "1", "|", "B", "L", "I", "N", "K",
                             "|", "1", "8", "0">>
         /\ wire[j].data = <<"L", "E", "D", "|", "1", "|", "O", "F", "F">>
         /\ wire[k].data = <<"L", "E", "D", "|", "9", "|", "B", "L", "I", "N", "K",
                             "|", "8", "0">>

(* ------------------------------ claim C12 ---------------------------- *)

\* the BLINK lines sent for call c
BlinksOf(c) == SuccessBlinks(c) \cup FailureBlinks(c)

\* the spawn attempts and BLINK lines of call c all precede those of call d
EventsBefore(c, d) ==
    /\ \A k \in SpawnsOf(c), m \in SpawnsOf(d) : k < m
    /\ \A i \in BlinksOf(c), j \in BlinksOf(d) : i < j
    /\ \A k \in SpawnsOf(c), j \in BlinksOf(d) : spawns[k].at < j
    /\ \A i \in BlinksOf(c), m \in SpawnsOf(d) : i + 1 <= spawns[m].at

\* the period of the BLINK that follows the spawn attempt of call c
PeriodAfterSpawn(c) == IF SpawnOk(c) THEN SuccessPeriod ELSE FailurePeriod

\* C12: spawn attempts and BLINK lines are emitted in the order of the input
\* lines, and within one line the spawn attempt precedes its BLINK. For the
\* stream BTN|1|DOWN, BTN|9|DOWN, GARBAGE, BTN|2|DOWN, once the four lines
\* are handled: the spawns are notepad.exe then bash -c "echo hi"; line 1 has
\* one BLINK for button 1, line 2 one failure BLINK for button 9 and no
\* spawn, line 3 nothing, line 4 one BLINK for button 2; the BLINK after a
\* spawn is the success BLINK when the spawn succeeded.
C12_EventsInInputOrder ==
    /\ \A c \in Calls, d \in Calls : c < d => EventsBefore(c, d)
    /\ \A c \in Calls :
         \A k \in SpawnsOf(c), i \in BlinksOf(c) : spawns[k].at < i
    /\ \A c \in Calls : calls[c].line = ScenarioStream[c]
    /\ (Len(calls) = 4 /\ calls[4].st = "ret") =>
         /\ Len(spawns) = 2
         /\ spawns[1].c = 1 /\ spawns[1].cmd = <<"notepad.exe">>
         /\ spawns[2].c = 4 /\ spawns[2].cmd = <<"bash", "-c", "echo hi">>
         /\ BlinksOf(1) = SentFor(1, LedCommand(<<"1">>, BLINK, PeriodAfterSpawn(1)))
         /\ BlinksOf(2) = SentFor(2, LedCommand(<<"9">>, BLINK, FailurePeriod))
         /\ BlinksOf(4) = SentFor(4, LedCommand(<<"2">>, BLINK, PeriodAfterSpawn(4)))
         /\ \A c \in {1, 2, 4} : Cardinality(BlinksOf(c)) = 1
         /\ \A i \in 1..Len(wire) : wire[i].c # 3
         /\ TimersOf(3) = {}

\* the four lines were handled with both spawns successful: spawn, success
\* BLINK of 1, failure BLINK of 9, spawn, success BLINK of 2, and the OFF of
\* button 1 was sent before the last BLINK
C12_Witness ==
    /\ Len(calls) = 4 /\ calls[4].st = "ret"
    /\ SpawnOk(1) /\ SpawnOk(4)
    /\ SuccessBlinks(1) # {} /\ FailureBlinks(2) # {} /\ SuccessBlinks(4) # {}
    /\ \E i \in Offs(1), j \in SuccessBlinks(4) : i < j

(* ------------------------------ claim C13 ---------------------------- *)

\* the number a field of decimal digits stands for, as the device reads it
RECURSIVE ParseInt(_)
ParseInt(s) ==
    IF s = <<>> THEN 0
    ELSE 10 * ParseInt(SubSeq(s, 1, Len(s) - 1))
         + (CHOOSE d \in 0..9 : DigitChars[d + 1] = s[Len(s)])

\* the period argument of the BLINK line that the flash of timer task k sent
BlinkPeriods(k) ==
    {ParseInt(Split(wire[i].data)[4]) : i \in BlinksOf(timers[k].c)}

TimerTasks == 1..Len(timers)

\* C13, as claimed: the period sent for a success flash is strictly smaller
\* than the period sent for a failure flash, and the delay before OFF of a
\* success flash is strictly shorter than that of a failure flash.
C13_SuccessPeriodSmaller ==
    \A k \in TimerTasks, m \in TimerTasks :
      (timers[k].success /\ ~timers[m].success) =>
        /\ \A p \in BlinkPeriods(k), q \in BlinkPeriods(m) : p < q
        /\ timers[k].delay < timers[m].delay

\* C13, amended: the period sent for a success flash (180) is strictly
\* larger than the period sent for a failure flash (80), so the failure flash
\* blinks faster; the delay before OFF of a success flash (1200 ms) is
\* strictly shorter than that of a failure flash (2000 ms).
C13_SuccessPeriodLarger ==
    \A k \in TimerTasks, m \in TimerTasks :
      (timers[k].success /\ ~timers[m].success) =>
        /\ BlinkPeriods(k) = {SuccessPeriod}
        /\ BlinkPeriods(m) = {FailurePeriod}
        /\ \A p \in BlinkPeriods(k), q \in BlinkPeriods(m) : p > q
        /\ timers[k].delay < timers[m].delay

\* a success flash and a failure flash were both sent on the hardware channel
C13_Witness ==
    /\ mode = "serial"
    /\ \E k \in TimerTasks, m \in TimerTasks :
         /\ timers[k].success /\ ~timers[m].success
         /\ BlinkPeriods(k) # {} /\ BlinkPeriods(m) # {}

(* ------------------------------ claim C14 ---------------------------- *)

\* thread t is about to write to or read from the handle _require_serial
\* returned to it
AboutToUseHandle(t) ==
    At(t, "sl_write1") \/ At(t, "sl_write2") \/ At(t, "rl_read")

\* C14: whenever a thread performs a write or a read on the channel, the
\* handle it uses is the one the transport holds, and it is open: never
\* None, never a handle that was marked disconnected in the meantime.
C14_IoOnConnectedHandle ==
    \A t \in Threads :
      AboutToUseHandle(t) =>
        /\ Top(t).n # None
        /\ Top(t).n = serial
        /\ Top(t).n \in isOpen

(* ------------------------------ claim C15 ---------------------------- *)

\* the handles of the successful opens so far
Handles == 1..opens

\* the positions on the wire of what was written on handle h
WrittenOn(h) == {i \in 1..Len(wire) : wire[i].h = h}

\* C15: on every opened connection the first thing written is the handshake
\* HELLO|PC, and it is written at most once there: no LED line is written on
\* a newly opened channel before its handshake.
C15_HandshakeFirst ==
    \A h \in Handles :
      /\ \A i \in WrittenOn(h) :
           (\A j \in WrittenOn(h) : i <= j) => wire[i].data = HELLO
      /\ Cardinality({i \in WrittenOn(h) : wire[i].data = HELLO}) <= 1

(* ------------------------------ claim C16 ---------------------------- *)

\* thread t is inside _connect_with_retry
Connecting(t) ==
    st[t] = "run" /\ \E i \in 1..Depth(t) : stack[t][i].pc \in {"cr_loop", "cr_open"}

\* C16: at most one thread runs the reconnect procedure at a time, and a
\* thread opens the device only while the transport holds no handle: a
\* reconnect started by read_line and one started by a timer task's
\* send_line never both open the device.
C16_SingleReconnect ==
    /\ Cardinality({t \in Threads : Connecting(t)}) <= 1
    /\ \A t \in Threads : At(t, "cr_open") => serial = None

(* ------------------------------ claim C17 ---------------------------- *)

\* the button ids of the presses so far
PressedIds == {IdOf(c) : c \in {d \in Calls : IsDown(d)}}

\* the returned DOWN calls for button b whose BLINK was sent
FlashesOf(b) ==
    {c \in Calls : IsDown(c) /\ IdOf(c) = b /\ calls[c].st = "ret"
                                /\ BlinksOf(c) # {}}

\* the timer tasks created for button b
TimerTasksOf(b) == {k \in TimerTasks : timers[k].id = b}

\* the OFF lines sent for button b
OffLinesOf(b) == {i \in LedLines : wire[i].data = LedCommand(b, OFF, -1)}

\* a send of the hardware transport cannot go on: a thread waits for the
\* lock it holds itself, or the device can no longer be opened
SendsStuck ==
    \/ \E t \in Threads : SelfBlocked(t)
    \/ \E t \in Threads : At(t, "cr_open") /\ opens = MaxOpens

\* nothing of a flash is undone by a later one: k flashes of button b have
\* created k timer tasks, each still pending or sending ("run"), completed,
\* ended by the exit of the process or by a failed send; every completed
\* timer task has sent one OFF
C17_Safe ==
    \A b \in PressedIds :
      /\ \A c \in FlashesOf(b) : Cardinality(TimersOf(c)) = 1
      /\ Cardinality({k \in TimerTasksOf(b) : timers[k].c \in FlashesOf(b)})
           = Cardinality(FlashesOf(b))
      /\ \A k \in TimerTasksOf(b) : st[k] \in {"run", "done", "killed", "died"}
      /\ Cardinality(OffLinesOf(b))
           = Cardinality({k \in TimerTasksOf(b) : st[k] = "done"})

\* C17: a new flash never cancels a pending OFF timer. After k DOWN events
\* for one button whose BLINK was sent there are exactly k timer tasks for
\* it, and every timer task eventually completes, having sent its OFF, unless
\* the process exits first or a send fails or cannot go on: so k OFF lines
\* are eventually sent when the process keeps running and sends succeed.
C17_NoTimerCancelled ==
    /\ []C17_Safe
    /\ \A k \in Timers :
         (st[k] = "run") ~> (st[k] \in {"done", "killed", "died"} \/ SendsStuck)

\* button 1 was pressed twice on the hardware transport; the OFF of the first
\* press was sent after the BLINK of the second press, and both OFF lines
\* were sent
C17_Witness ==
    /\ mode = "serial"
    /\ Len(calls) = 2
    /\ IsDown(1) /\ IsDown(2) /\ IdOf(1) = <<"1">> /\ IdOf(2) = <<"1">>
    /\ Cardinality(TimerTasksOf(<<"1">>)) = 2
    /\ Cardinality(OffLinesOf(<<"1">>)) = 2
    /\ \E i \in Offs(1), j \in BlinksOf(2) : j < i

(* ------------------------------ claim C18 ---------------------------- *)

\* the foreground thread leaves the point where read_line has returned
GotStep == At(MAIN, "m_got") /\ stack'[MAIN] # stack[MAIN]

\* C18: the run loop is left only when read_line returned None, on an
\* interrupt or when an error propagates, and it is left when read_line
\* returned None; after an empty read (the empty string) the loop is not
\* left unless interrupted, nothing is spawned, nothing is sent and no timer
\* task is started, and the foreground thread goes on to the next read.
C18_LoopEndsOnNoneOnly ==
    [][/\ (exitCause' # exitCause /\ exitCause' = "eof") =>
            (GotStep /\ Top(MAIN).n = 1)
       /\ (exitCause' # exitCause) =>
            (exitCause = "none" /\ exitCause' \in {"eof", "interrupt", "error", "ctor"})
       /\ (GotStep /\ Top(MAIN).n = 1) =>
            exitCause' \in {"eof", "interrupt"}
       /\ (GotStep /\ Top(MAIN).n = 0 /\ Top(MAIN).a = <<>>) =>
            /\ spawns' = spawns /\ wire' = wire /\ timers' = timers
            /\ \/ exitCause' = "interrupt"
               \/ /\ exitCause' = exitCause
                  /\ stack'[MAIN] = <<[Top(MAIN) EXCEPT !.pc = "m_read"]>>
                  /\ calls' = Append(calls, [line |-> <<>>, st |-> "ret"])
      ]_vars

\* on the hardware transport a read failure gave an empty read, the loop
\* went on, and the next line read was a DOWN event that was handled
C18_Witness ==
    /\ mode = "serial"
    /\ faults = 1
    /\ Len(calls) = 2
    /\ calls[1].line = <<>>
    /\ IsDown(2) /\ calls[2].st = "ret"
    /\ exitCause = "none"
    /\ spawns = <<>>

(* ------------------------------ claim C19 ---------------------------- *)

\* thread t is inside the with block of a send_line
InsideSendLine(t) ==
    st[t] = "run" /\ \E i \in 1..Depth(t) : HoldsLock(stack[t][i].pc)

\* C19: the send lock never deadlocks: no thread that is inside the with
\* block of send_line, and so holds the lock, calls send_line again and
\* waits for that lock, whether send_line found the channel disconnected or
\* caught a write failure.
C19_LockNeverSelfAcquired ==
    \A t \in Threads :
      InsideSendLine(t) => (lock = t /\ ~At(t, "sl_acquire"))

(* ------------------------------ claim C20 ---------------------------- *)

\* close() has returned on the hardware transport: main is past its finally
\* block, or the process has exited
CloseReturned ==
    /\ mode = "serial"
    /\ closeCalls >= 1
    /\ ~closeRaised
    /\ Exited \/ (At(MAIN, "m_exit") /\ Depth(MAIN) = 1)

\* C20: once close() has returned the channel stays closed: the transport
\* holds no open handle, so no pending timer task has opened the device
\* again.
C20_StaysClosed ==
    CloseReturned => (serial = None \/ serial \notin isOpen)

=============================================================================
